---- MODULE Spec2Model ----
(***************************************************************************)
(* Model of init_db.py: the database initialization script of the         *)
(* StockNear backend.  main() walks a fixed list of five (db_name, schema) *)
(* pairs and calls init_database on each; init_database prints a start     *)
(* line, opens "<db_name>.db" with sqlite3, runs the CREATE TABLE IF NOT   *)
(* EXISTS statement, commits, closes and prints a success line.            *)
(*                                                                         *)
(* The file system, the availability of the storage paths and the content *)
(* of the stores are the environment.  The environment changes only        *)
(* between runs (the script has no concurrency); its operations are the    *)
(* ones the specification talks about: deleting or corrupting a file,      *)
(* inserting rows, an older deployment having left a differently shaped    *)
(* table, a path being unavailable.                                        *)
(***************************************************************************)
EXTENDS Integers, Sequences, FiniteSets, TLC

\* Bounds of the model.
MaxEnvOps == 2      \* environment operations in one behaviour
MaxRows == 1        \* rows the environment inserts into one table

VARIABLES
    fs,         \* file name -> content of the file (the persistent stores)
    blocked,    \* file names whose path cannot be opened
    pc,         \* position of the script
    i,          \* index of the for loop of main over databases
    conns,      \* store connections that are open (file names)
    stdout,     \* characters written to the console in this run
    exit,       \* exit status of the process: <<>> while there is none
    error,      \* the exception that ended the run, or "none"
    pre,        \* history: fs when the current run started
    prev,       \* history: how the run before the current one ended
    envLog,     \* history: environment operations since that run ended
    opened,     \* history: file name -> sqlite3.connect calls in this run
    committed,  \* history: file names whose conn.commit() returned in this run
    envOps      \* environment operations so far

vars == <<fs, blocked, pc, i, conns, stdout, exit, error, pre, prev, envLog,
          opened, committed, envOps>>

---------------------------------------------------------------------------
(* The schemas and the list of databases of main.                          *)

\* A CREATE TABLE statement: the table, its columns in order, and whether
\* it carries IF NOT EXISTS.
\* Mutant: the statement without IF NOT EXISTS.
stocks_schema_plain ==
    [table |-> "stocks", ifNotExists |-> FALSE,
     columns |-> <<"id", "symbol", "name", "type", "marketCap", "exchange",
                   "exchangeShortName", "created_at">>]

stocks_schema ==
    [table |-> "stocks", ifNotExists |-> TRUE,
     columns |-> <<"id", "symbol", "name", "type", "marketCap", "exchange",
                   "exchangeShortName", "created_at">>]

etfs_schema ==
    [table |-> "etfs", ifNotExists |-> TRUE,
     columns |-> <<"id", "symbol", "name", "type", "created_at">>]

indices_schema ==
    [table |-> "indices", ifNotExists |-> TRUE,
     columns |-> <<"id", "symbol", "name", "type", "created_at">>]

institute_schema ==
    [table |-> "institutes", ifNotExists |-> TRUE,
     columns |-> <<"id", "name", "cik", "type", "created_at">>]

\* Mutant: the name column left out of the statement.
crypto_schema_short ==
    [table |-> "cryptos", ifNotExists |-> TRUE,
     columns |-> <<"id", "symbol", "created_at">>]

crypto_schema ==
    [table |-> "cryptos", ifNotExists |-> TRUE,
     columns |-> <<"id", "symbol", "name", "created_at">>]

databases ==
    << <<"stocks", stocks_schema>>,
       <<"etf", etfs_schema>>,
       <<"index", indices_schema>>,
       <<"institute", institute_schema>>,
       <<"crypto", crypto_schema>> >>

\* f"{db_name}.db"
DbPath(db_name) == db_name \o ".db"

NumDatabases == Len(databases)

DbName(k) == databases[k][1]
Schema(k) == databases[k][2]
PathOf(k) == DbPath(DbName(k))

DbFiles == {PathOf(k) : k \in 1..NumDatabases}

\* The file names of the working directory the model tracks: the five
\* stores and the names a store would get if it were named after its table.
Files == DbFiles \cup {DbPath(Schema(k).table) : k \in 1..NumDatabases}

---------------------------------------------------------------------------
(* Files and stores.                                                       *)

Absent == [kind |-> "absent", tables |-> {}]
Corrupt == [kind |-> "corrupt", tables |-> {}]
\* A zero-byte file, which sqlite3 reads as a database without tables.
EmptyDb == [kind |-> "db", tables |-> {}]

\* A table: its name, its columns, the values of the unique column of its rows.
Table(name, columns, rows) == [name |-> name, columns |-> columns, rows |-> rows]

TablesNamed(file, name) == {t \in file.tables : t.name = name}
HasTable(file, name) == TablesNamed(file, name) # {}

---------------------------------------------------------------------------
(* sqlite3, as far as init_database uses it.                               *)

\* sqlite3.connect(path) on a path that can be opened: a missing file is
\* created empty; an existing file is opened as it is, whatever it holds.
ConnectFile(file) == IF file.kind = "absent" THEN EmptyDb ELSE file

\* Mutant: DROP TABLE IF EXISTS before CREATE TABLE.
ExecuteCreate_Recreate(file, schema_sql) ==
    IF file.kind # "db"
      THEN [raised |-> "DatabaseError", file |-> file]
    ELSE [raised |-> "none",
          file |-> [file EXCEPT !.tables =
                       {t \in @ : t.name # schema_sql.table}
                       \cup {[name |-> schema_sql.table,
                               columns |-> schema_sql.columns,
                               rows |-> {}]}]]

\* Mutant: a file that is no database is replaced by a new database.
ExecuteCreate_Repair(file, schema_sql) ==
    IF file.kind # "db" \/ \A t \in file.tables : t.name # schema_sql.table
      THEN [raised |-> "none",
            file |-> [kind |-> "db",
                      tables |-> file.tables
                          \cup {[name |-> schema_sql.table,
                                  columns |-> schema_sql.columns,
                                  rows |-> {}]}]]
    ELSE [raised |-> "none", file |-> file]

\* Mutant: an existing table with other columns is reported as an error.
ExecuteCreate_Strict(file, schema_sql) ==
    IF file.kind # "db"
      THEN [raised |-> "DatabaseError", file |-> file]
    ELSE IF \E t \in file.tables : t.name = schema_sql.table
      THEN IF \E t \in file.tables :
                 t.name = schema_sql.table /\ t.columns # schema_sql.columns
             THEN [raised |-> "OperationalError", file |-> file]
             ELSE [raised |-> "none", file |-> file]
    ELSE [raised |-> "none",
          file |-> [file EXCEPT !.tables =
                       @ \cup {[name |-> schema_sql.table,
                                columns |-> schema_sql.columns,
                                rows |-> {}]}]]

\* cursor.execute(schema_sql): "ok" with the file after it, or the exception.
\* A file that is not a database raises DatabaseError.  CREATE TABLE on a
\* table name that exists is a no-op with IF NOT EXISTS, whatever the
\* columns of the existing table, and an OperationalError without it.
\* The statement is DDL: the sqlite3 module opens no transaction for it, so
\* the table is in the file when execute returns.
ExecuteCreate(file, schema_sql) ==
    IF file.kind # "db"
      THEN [raised |-> "DatabaseError", file |-> file]
    ELSE IF HasTable(file, schema_sql.table)
      THEN IF schema_sql.ifNotExists
             THEN [raised |-> "none", file |-> file]
             ELSE [raised |-> "OperationalError", file |-> file]
    ELSE [raised |-> "none",
          file |-> [file EXCEPT !.tables =
                       @ \cup {Table(schema_sql.table, schema_sql.columns, {})}]]

---------------------------------------------------------------------------
(* Console output.                                                         *)

NL == "\n"

\* print(text): the text, then the line end.  A text is the sequence of its
\* pieces; a line break inside a text is the piece NL.
PrintTo(out, text) == out \o text \o <<NL>>

\* f"Initializing {db_name}.db..."
StartText(db_name) == <<"Initializing ", db_name, ".db...">>
\* f"(check mark) {db_name}.db initialized successfully"
SuccessText(db_name) == <<"[ok] ", db_name, ".db initialized successfully">>
\* Mutant: the completion text without its leading line break.
CompleteText_NoBreak == <<"Database initialization complete!">>

\* "\n(party popper) Database initialization complete!"
CompleteText == <<NL, "Database initialization complete!">>

\* The lines of a console stream: each NL ends one line.
RECURSIVE LinesFrom(_, _, _)
LinesFrom(out, k, cur) ==
    IF k > Len(out) THEN (IF cur = <<>> THEN <<>> ELSE <<cur>>)
    ELSE IF out[k] = NL THEN <<cur>> \o LinesFrom(out, k + 1, <<>>)
    ELSE LinesFrom(out, k + 1, Append(cur, out[k]))

Lines(out) == LinesFrom(out, 1, <<>>)

---------------------------------------------------------------------------
(* The script.                                                             *)

Idle == {"NotStarted", "Done", "Failed"}
Terminal == {"Done", "Failed"}

NoOpens == [f \in Files |-> 0]

Init ==
    /\ fs = [f \in Files |-> Absent]
    /\ blocked = {}
    /\ pc = "NotStarted"
    /\ i = 0
    /\ conns = {}
    /\ stdout = <<>>
    /\ exit = <<>>
    /\ error = "none"
    /\ pre = [f \in Files |-> Absent]
    /\ prev = "none"
    /\ envLog = <<>>
    /\ opened = NoOpens
    /\ committed = {}
    /\ envOps = 0

\* Mutant: main catches the exception and goes on with the next database.
Raise_Continue(e) ==
    /\ error' = e
    /\ exit' = exit
    /\ i' = i + 1
    /\ pc' = IF i < Len(databases) THEN "print_start" ELSE "print_complete"

\* Mutant: the exception is caught and the process exits with status 0.
Raise_ExitZero(e) ==
    /\ pc' = "Failed"
    /\ error' = e
    /\ exit' = <<0>>
    /\ i' = i

\* An exception nobody catches: it leaves init_database and main, the
\* interpreter prints the traceback and exits with status 1.
Raise(e) ==
    /\ pc' = "Failed"
    /\ error' = e
    /\ exit' = <<1>>
    /\ i' = i

\* python init_db.py: a new process enters main and the for loop.
Main ==
    /\ pc \in Idle
    /\ pc' = "print_start"
    /\ i' = 1
    /\ conns' = {}
    /\ stdout' = <<>>
    /\ exit' = <<>>
    /\ error' = "none"
    /\ opened' = NoOpens
    /\ committed' = {}
    /\ pre' = fs
    /\ prev' = IF pc \in Terminal THEN pc ELSE prev
    /\ envLog' = IF pc \in Terminal THEN <<>> ELSE envLog
    /\ UNCHANGED <<fs, blocked, envOps>>

\* print(f"Initializing {db_name}.db...")
PrintStart ==
    /\ pc = "print_start"
    /\ stdout' = PrintTo(stdout, StartText(DbName(i)))
    /\ pc' = "connect"
    /\ UNCHANGED <<fs, blocked, i, conns, exit, error, pre, prev, envLog,
                   opened, committed, envOps>>

\* conn = sqlite3.connect(f"{db_name}.db"); cursor = conn.cursor()
Connect ==
    /\ pc = "connect"
    /\ opened' = [opened EXCEPT ![PathOf(i)] = @ + 1]
    /\ IF PathOf(i) \in blocked
         THEN /\ Raise("OperationalError")
              /\ UNCHANGED <<fs, conns>>
         ELSE /\ fs' = [fs EXCEPT ![PathOf(i)] = ConnectFile(@)]
              /\ conns' = conns \cup {PathOf(i)}
              /\ pc' = "execute"
              /\ UNCHANGED <<i, exit, error>>
    /\ UNCHANGED <<blocked, stdout, pre, prev, envLog, committed, envOps>>

\* cursor.execute(schema_sql)
Execute ==
    /\ pc = "execute"
    /\ LET r == ExecuteCreate(fs[PathOf(i)], Schema(i)) IN
         IF r.raised # "none"
           THEN /\ Raise(r.raised)
                /\ UNCHANGED fs
           ELSE /\ fs' = [fs EXCEPT ![PathOf(i)] = r.file]
                /\ pc' = "commit"
                /\ UNCHANGED <<i, exit, error>>
    /\ UNCHANGED <<blocked, conns, stdout, pre, prev, envLog, opened,
                   committed, envOps>>

\* conn.commit(): no transaction is open after the DDL statement, so there
\* is nothing left to write.
Commit ==
    /\ pc = "commit"
    /\ committed' = committed \cup {PathOf(i)}
    /\ pc' = "close"
    /\ UNCHANGED <<fs, blocked, i, conns, stdout, exit, error, pre, prev,
                   envLog, opened, envOps>>

\* Mutant: the connection is never closed.
Close_Leak ==
    /\ pc = "close"
    /\ pc' = "print_ok"
    /\ UNCHANGED <<fs, blocked, i, conns, stdout, exit, error, pre, prev,
                   envLog, opened, committed, envOps>>

\* conn.close()
Close ==
    /\ pc = "close"
    /\ conns' = conns \ {PathOf(i)}
    /\ pc' = "print_ok"
    /\ UNCHANGED <<fs, blocked, i, stdout, exit, error, pre, prev, envLog,
                   opened, committed, envOps>>

\* print(f"(check mark) {db_name}.db initialized successfully"); init_database
\* returns and the for loop takes the next pair, or ends.
PrintSuccess ==
    /\ pc = "print_ok"
    /\ stdout' = PrintTo(stdout, SuccessText(DbName(i)))
    /\ i' = i + 1
    /\ pc' = IF i < NumDatabases THEN "print_start" ELSE "print_complete"
    /\ UNCHANGED <<fs, blocked, conns, exit, error, pre, prev, envLog,
                   opened, committed, envOps>>

\* print("\n(party popper) Database initialization complete!"); main returns
\* and the process exits with status 0.
PrintComplete ==
    /\ pc = "print_complete"
    /\ stdout' = PrintTo(stdout, CompleteText)
    /\ pc' = "Done"
    /\ exit' = <<0>>
    /\ UNCHANGED <<fs, blocked, i, conns, error, pre, prev, envLog, opened,
                   committed, envOps>>

RunStep ==
    \/ PrintStart
    \/ Connect
    \/ Execute
    \/ Commit
    \/ Close
    \/ PrintSuccess
    \/ PrintComplete

---------------------------------------------------------------------------
(* The environment, between runs.                                          *)

\* After an environment operation no process of the script exists.
EnvStep(op, f, newFs) ==
    /\ pc \in Idle
    /\ envOps < MaxEnvOps
    /\ envOps' = envOps + 1
    /\ pc' = "NotStarted"
    /\ i' = 0
    /\ conns' = {}
    /\ stdout' = <<>>
    /\ exit' = <<>>
    /\ error' = "none"
    /\ opened' = NoOpens
    /\ committed' = {}
    /\ prev' = IF pc \in Terminal THEN pc ELSE prev
    /\ envLog' = IF pc \in Terminal THEN << <<op, f>> >>
                 ELSE Append(envLog, <<op, f>>)
    /\ fs' = newFs
    /\ pre' = newFs

\* The file of a resource is deleted.
DeleteFile ==
    \E f \in DbFiles :
        /\ fs[f].kind # "absent"
        /\ EnvStep("delete", f, [fs EXCEPT ![f] = Absent])
        /\ UNCHANGED blocked

\* The file of a resource is overwritten with something that is no database.
CorruptFile ==
    \E f \in DbFiles :
        /\ fs[f].kind = "db"
        /\ EnvStep("corrupt", f, [fs EXCEPT ![f] = Corrupt])
        /\ UNCHANGED blocked

\* The application inserts a row with a new value of the unique column.
InsertRow ==
    \E f \in DbFiles : \E t \in fs[f].tables :
        /\ Cardinality(t.rows) < MaxRows
        /\ EnvStep("insert", f,
                   [fs EXCEPT ![f].tables =
                       (@ \ {t}) \cup
                       {Table(t.name, t.columns,
                              t.rows \cup {Cardinality(t.rows) + 1})}])
        /\ UNCHANGED blocked

\* The columns of a table an earlier version of the schema declared.
LegacyColumns == <<"id", "symbol">>

\* An earlier deployment left the declared table with other columns.
CreateLegacyTable ==
    \E k \in 1..NumDatabases :
        /\ fs[PathOf(k)].kind \in {"absent", "db"}
        /\ ~HasTable(fs[PathOf(k)], Schema(k).table)
        /\ EnvStep("legacy", PathOf(k),
                   [fs EXCEPT ![PathOf(k)] =
                       [kind |-> "db",
                        tables |-> @.tables \cup
                            {Table(Schema(k).table, LegacyColumns, {})}]])
        /\ UNCHANGED blocked

\* The path of a resource becomes unavailable (permissions, missing
\* directory), or available again.
SetAvailability ==
    \E f \in DbFiles :
        /\ blocked' = IF f \in blocked THEN blocked \ {f} ELSE blocked \cup {f}
        /\ EnvStep("availability", f, fs)

Environment ==
    \/ DeleteFile
    \/ CorruptFile
    \/ InsertRow
    \/ CreateLegacyTable
    \/ SetAvailability

Next == Main \/ RunStep \/ Environment

Spec == Init /\ [][Next]_vars

\* A started run is a sequential program: it takes its next step.
FairSpec == Spec /\ WF_vars(RunStep)

---------------------------------------------------------------------------
(* The persisted artifacts as the specification declares them: file, table *)
(* and columns of each resource, written out independently of main's list. *)

ResourceNames == <<"stocks", "etf", "index", "institute", "crypto">>

DeclaredFiles ==
    {"stocks.db", "etf.db", "index.db", "institute.db", "crypto.db"}

DeclaredTableName ==
    [f \in DeclaredFiles |->
        CASE f = "stocks.db" -> "stocks"
          [] f = "etf.db" -> "etfs"
          [] f = "index.db" -> "indices"
          [] f = "institute.db" -> "institutes"
          [] f = "crypto.db" -> "cryptos"]

DeclaredColumns ==
    [f \in DeclaredFiles |->
        CASE f = "stocks.db" ->
               <<"id", "symbol", "name", "type", "marketCap", "exchange",
                 "exchangeShortName", "created_at">>
          [] f = "etf.db" -> <<"id", "symbol", "name", "type", "created_at">>
          [] f = "index.db" -> <<"id", "symbol", "name", "type", "created_at">>
          [] f = "institute.db" -> <<"id", "name", "cik", "type", "created_at">>
          [] f = "crypto.db" -> <<"id", "symbol", "name", "created_at">>]

FileOf(k) == ResourceNames[k] \o ".db"

\* A store as a first run leaves it: the one declared table, without rows.
FreshStore(f) ==
    [kind |-> "db",
     tables |-> {[name |-> DeclaredTableName[f],
                  columns |-> DeclaredColumns[f],
                  rows |-> {}]}]

HasDeclaredTable(store, f) ==
    \E t \in store.tables : t.name = DeclaredTableName[f]

\* The store holds the declared table name with other columns than declared.
SchemaConflict(store, f) ==
    /\ store.kind = "db"
    /\ \E t \in store.tables :
          t.name = DeclaredTableName[f] /\ t.columns # DeclaredColumns[f]

StartLine(n) == <<"Initializing ", n, ".db...">>
SuccessLine(n) == <<"[ok] ", n, ".db initialized successfully">>
CompletionLine == <<"Database initialization complete!">>
BlankLine == <<>>

\* The line is among the lines L of the console.
In(L, line) == \E j \in 1..Len(L) : L[j] = line

---------------------------------------------------------------------------
(* The claims.                                                             *)

C2_Idempotent ==
    (pc \in Terminal /\ prev = "Done" /\ envLog = <<>>) =>
        /\ pc = "Done"
        /\ error = "none"
        /\ fs = pre
        /\ \A f \in Files : \A t, u \in fs[f].tables : t.name = u.name => t = u

C2_Witness ==
    /\ pc = "Done"
    /\ prev = "Done"
    /\ envLog = <<>>
    /\ \A f \in DeclaredFiles : HasDeclaredTable(fs[f], f)

\* C3: at every point of a run, whatever runs and insertions came before,
\* every file that existed when the run started is still of the same kind,
\* every table it held is still there with the same columns and rows, and
\* whatever the run added is the file of a resource that was missing or an
\* empty table whose name the store did not hold.
C3_NoDataLoss ==
    \A f \in Files :
        /\ pre[f].kind # "absent" => fs[f].kind = pre[f].kind
        /\ pre[f].kind = "absent" => fs[f].kind \in {"absent", "db"}
        /\ f \notin DeclaredFiles => fs[f] = pre[f]
        /\ pre[f].tables \subseteq fs[f].tables
        /\ \A t \in fs[f].tables \ pre[f].tables :
              /\ \A u \in pre[f].tables : u.name # t.name
              /\ t.rows = {}

C3_Witness ==
    /\ pc = "Done"
    /\ prev = "Done"
    /\ \E f \in DeclaredFiles : \E t \in pre[f].tables : t.rows # {}
    /\ \E f \in DeclaredFiles : pre[f].kind = "absent" /\ fs[f] = FreshStore(f)

\* The one resource file deleted or corrupted since the run before ended.
Damaged(op) == Len(envLog) = 1 /\ envLog[1][1] = op

\* C4 as stated: after a successful run and the deletion or corruption of
\* one resource's file, the next run succeeds, recreates that store and
\* table and leaves the other four stores as they were.
C4_Original ==
    (pc \in Terminal /\ prev = "Done" /\ (Damaged("delete") \/ Damaged("corrupt"))) =>
        /\ pc = "Done"
        /\ fs[envLog[1][2]] = FreshStore(envLog[1][2])
        /\ \A g \in Files \ {envLog[1][2]} : fs[g] = pre[g]

\* C4, amended: after a successful run and the deletion of one resource's
\* file, the next run succeeds, recreates that store with its declared empty
\* table and leaves the other four stores as they were; after the file was
\* instead overwritten with something that is no database, the next run
\* fails with DatabaseError at that resource, repairs nothing and leaves
\* all five files as they were.
C4_Independence ==
    /\ (pc \in Terminal /\ prev = "Done" /\ Damaged("delete")) =>
          /\ pc = "Done"
          /\ fs[envLog[1][2]] = FreshStore(envLog[1][2])
          /\ \A g \in Files \ {envLog[1][2]} : fs[g] = pre[g]
    /\ (pc \in Terminal /\ prev = "Done" /\ Damaged("corrupt")) =>
          /\ pc = "Failed"
          /\ error = "DatabaseError"
          /\ FileOf(i) = envLog[1][2]
          /\ fs = pre

C4_Witness ==
    /\ pc = "Done"
    /\ prev = "Done"
    /\ Damaged("delete")
    /\ envLog[1][2] = "index.db"
    /\ pre["index.db"].kind = "absent"
    /\ fs["index.db"] = FreshStore("index.db")

\* C5: when the initialization of the k-th resource raises an error the run
\* is over: no resource after the k-th was opened or changed in the run, the
\* k-th was opened at most once, and every resource before the k-th still
\* holds what it held plus its declared table, committed and closed.
C5_FailFast ==
    error # "none" =>
      LET L == Lines(stdout) IN
        /\ pc = "Failed"
        /\ i \in 1..5
        /\ opened[FileOf(i)] = 1
        /\ \A k \in 1..5 : k > i =>
              /\ opened[FileOf(k)] = 0
              /\ fs[FileOf(k)] = pre[FileOf(k)]
              /\ FileOf(k) \notin conns
              /\ ~In(L, StartLine(ResourceNames[k]))
        /\ \A k \in 1..5 : k < i =>
              /\ opened[FileOf(k)] = 1
              /\ fs[FileOf(k)].kind = "db"
              /\ HasDeclaredTable(fs[FileOf(k)], FileOf(k))
              /\ pre[FileOf(k)].tables \subseteq fs[FileOf(k)].tables
              /\ FileOf(k) \in committed
        /\ ~In(L, CompletionLine)

C5_Witness ==
    /\ pc = "Failed"
    /\ i = 3
    /\ pre["stocks.db"].kind = "absent"
    /\ fs["stocks.db"] = FreshStore("stocks.db")
    /\ fs["etf.db"] = FreshStore("etf.db")
    /\ fs["institute.db"].kind = "absent"

\* The progress lines of a run that got through all five resources.
ProgressLines ==
    << StartLine("stocks"), SuccessLine("stocks"),
       StartLine("etf"), SuccessLine("etf"),
       StartLine("index"), SuccessLine("index"),
       StartLine("institute"), SuccessLine("institute"),
       StartLine("crypto"), SuccessLine("crypto") >>

\* In every run: the completion line comes after all five success lines,
\* and a success line directly follows the start line of its resource.
ConsoleOrder(L) ==
    \A j \in 1..Len(L) :
        /\ L[j] = CompletionLine =>
              \A k \in 1..5 : \E m \in 1..(j - 1) :
                  L[m] = SuccessLine(ResourceNames[k])
        /\ \A k \in 1..5 :
              L[j] = SuccessLine(ResourceNames[k]) =>
                  j > 1 /\ L[j - 1] = StartLine(ResourceNames[k])

\* C6 as stated: the console output of a fully successful run is exactly
\* eleven lines, the ten progress lines and the completion line.
C6_Original ==
    LET L == Lines(stdout) IN
    /\ pc = "Done" => L = Append(ProgressLines, CompletionLine) /\ Len(L) = 11
    /\ ConsoleOrder(L)

\* C6, amended: the console output of a fully successful run is exactly
\* twelve lines: for each of the five resources in order its start line
\* directly followed by its success line, then one empty line, then the
\* completion line.  In every run the completion line comes only after all
\* five success lines and a success line is never emitted without the start
\* line of its resource before it.
C6_Console ==
    LET L == Lines(stdout) IN
    /\ pc = "Done" =>
          /\ L = ProgressLines \o <<BlankLine, CompletionLine>>
          /\ Len(L) = 12
    /\ ConsoleOrder(L)

C6_Witness ==
    /\ pc = "Done"
    /\ Len(Lines(stdout)) = 12
    /\ Lines(stdout)[11] = BlankLine
    /\ Lines(stdout)[12] = CompletionLine
    /\ Lines(stdout)[10] = SuccessLine("crypto")

\* The two terminal states of a run and their exit status.
TerminalStates ==
    /\ pc = "Done" <=>
          /\ exit = <<0>>
          /\ error = "none"
          /\ \A f \in DeclaredFiles : f \in committed /\ f \notin conns
    /\ pc = "Failed" <=> error # "none"
    /\ pc = "Failed" => exit = <<1>>
    /\ exit \in {<<>>, <<0>>, <<1>>}
    /\ exit = <<>> <=> pc \notin Terminal
    /\ exit = <<0>> => \A f \in DeclaredFiles : HasDeclaredTable(fs[f], f)

\* C7: every run of main ends in Done or in Failed: in Done exactly when
\* all five resources were initialized without error, with exit status 0;
\* in Failed exactly when a storage operation raised, with a non-zero exit
\* status.  No run ends with exit status 0 and a declared table missing.
C7_Termination ==
    /\ []TerminalStates
    /\ (pc \notin Idle) ~> (pc \in Terminal)

C7_Witness ==
    /\ pc = "Failed"
    /\ exit = <<1>>
    /\ error = "OperationalError"
    /\ i = 4
    /\ committed = {"stocks.db", "etf.db", "index.db"}

\* C8: at most one store connection is open at any time, each store is
\* opened at most once per run, the store of resource k is opened only after
\* resource k-1 has its table in its store, committed, and its connection
\* closed; and once the success line of a resource is emitted its table is
\* in its store, committed, and its connection closed.
C8_Sequential ==
    LET L == Lines(stdout) IN
    /\ Cardinality(conns) <= 1
    /\ \A f \in Files : opened[f] <= 1
    /\ \A f \in Files \ DeclaredFiles : opened[f] = 0
    /\ \A k \in 2..5 : opened[FileOf(k)] > 0 =>
          /\ HasDeclaredTable(fs[FileOf(k - 1)], FileOf(k - 1))
          /\ FileOf(k - 1) \in committed
          /\ FileOf(k - 1) \notin conns
    /\ \A k \in 1..5 : In(L, SuccessLine(ResourceNames[k])) =>
          /\ HasDeclaredTable(fs[FileOf(k)], FileOf(k))
          /\ FileOf(k) \in committed
          /\ FileOf(k) \notin conns

C8_Witness ==
    /\ pc = "commit"
    /\ conns = {"crypto.db"}
    /\ opened["crypto.db"] = 1
    /\ In(Lines(stdout), SuccessLine("institute"))

\* C9 as stated: every connection init_database opened is closed when the
\* run has reached its terminal state, Done or Failed.
C9_AllClosed == pc \in Terminal => conns = {}

\* C10: a store that holds the declared table name with other columns and
\* can be opened is left exactly as it was by the run, init_database does
\* not fail on it and emits its success line; the only errors a run ends
\* with are those sqlite3 raises for the path or the file.
C10_ConflictIgnored ==
    /\ error \in {"none", "OperationalError", "DatabaseError"}
    /\ \A k \in 1..5 :
          (SchemaConflict(pre[FileOf(k)], FileOf(k)) /\ FileOf(k) \notin blocked) =>
              /\ fs[FileOf(k)] = pre[FileOf(k)]
              /\ ~(pc = "Failed" /\ i = k)
              /\ (pc \notin {"NotStarted", "Failed"}
                    /\ (i > k \/ pc \in {"print_complete", "Done"})) =>
                    In(Lines(stdout), SuccessLine(ResourceNames[k]))

\* A successful run that leaves a declared table without its declared columns.
C10_Witness ==
    /\ pc = "Done"
    /\ exit = <<0>>
    /\ \E t \in fs["etf.db"].tables :
          t.name = "etfs" /\ t.columns # DeclaredColumns["etf.db"] /\ t.rows # {}
    /\ In(Lines(stdout), SuccessLine("etf"))

====
